---- MODULE Spec2Model ----
(***************************************************************************)
(* Access-control boundary of the MCP developer-tool server: the startup    *)
(* configuration (environment, then command-line flags), the path verdict   *)
(* IsPathAllowed, the command admission isCommandAllowed and the four tool  *)
(* handlers that consult them before touching the filesystem or launching   *)
(* a process.                                                               *)
(*                                                                          *)
(* A string is a sequence of atoms.  The atoms "/", ":", "\\" and "." are   *)
(* the characters the code inspects; every other atom stands for a run of   *)
(* ordinary characters ("w", "2", "git", "ls", ...), so "/w2/f" is          *)
(* <<"/", "w", "2", "/", "f">> and has "/w" as a plain string prefix.       *)
(*                                                                          *)
(* Spec runs main and then the four handlers, each call in one step.        *)
(* SpecShell runs execute_shell_command statement by statement next to its  *)
(* process and to the goroutine calling cmd.Wait; SpecShellFair adds the    *)
(* scheduling of the server's goroutines.  SpecLifecycle runs main next to  *)
(* the goroutines of Server.Start and of the signal handling.               *)
(***************************************************************************)
EXTENDS Integers, Sequences, FiniteSets, TLC

VARIABLES
    pc,          \* position of main(): "main", "created", "registering", "serving"
    envAllowed,  \* MCP_ALLOWED_PATHS
    envDenied,   \* MCP_DENIED_PATHS
    pathsFlag,   \* --paths
    denyFlag,    \* --deny-paths
    cwd,         \* startup working directory
    config,      \* the *config.ServerConfig the server holds
    toolConfig,  \* per tool: has SetConfig handed it the server's config
    registered,  \* tools whose handler is registered with the transport
    fs,          \* the filesystem: directories and regular files by real path
    req,         \* the last tool request
    resp,        \* the response of the last tool request
    ret,         \* how the last Execute ended: its Go return values, or a panic
    trace,       \* the calls the last Execute made, in order
    writes,      \* number of successful write_file calls so far
    epc,         \* execute_shell_command: where Execute is after cmd.Start
    timeout,     \* execute_shell_command: Execute's local timeout, in seconds
    proc,        \* the launched process: "none", "running", or how it ended
    wOpen,       \* the process still holds the write ends of its output pipes
    wrote,       \* per stream, the chunks the process has written
    rOpen,       \* the read ends of the pipes are open (cmd.Wait closes them)
    data,        \* per stream, the chunks io.ReadAll has read
    done,        \* the buffered channel done: empty, or the error of cmd.Wait
    serve,       \* the goroutine of Start: "off", "running", "failing", "ended"
    stopper,     \* the signal goroutine: "idle", "stopping", "exiting", "exited"
    closes       \* number of close(s.done) calls made on the server's channel

vars == <<pc, envAllowed, envDenied, pathsFlag, denyFlag, cwd, config,
          toolConfig, registered, fs, req, resp, ret, trace, writes,
          epc, timeout, proc, wOpen, wrote, rOpen, data, done,
          serve, stopper, closes>>

\* ------------------------------------------------------------------ strings

Sep == "/"

\* strings.HasPrefix
HasPrefix(s, p) == Len(p) <= Len(s) /\ SubSeq(s, 1, Len(p)) = p

\* strings.Contains for a one-atom needle
Contains(s, c) == \E i \in 1..Len(s) : s[i] = c

\* index of the first c in s, 0 when there is none
RECURSIVE IndexFrom(_, _, _)
IndexFrom(s, c, i) ==
    IF i > Len(s) THEN 0
    ELSE IF s[i] = c THEN i
    ELSE IndexFrom(s, c, i + 1)

\* strings.Split(s, c): always at least one piece, empty pieces are kept
RECURSIVE Split(_, _)
Split(s, c) ==
    LET i == IndexFrom(s, c, 1)
    IN  IF i = 0 THEN <<s>>
        ELSE <<SubSeq(s, 1, i - 1)>> \o Split(SubSeq(s, i + 1, Len(s)), c)

\* strings.Join
RECURSIVE Join(_, _)
Join(parts, c) ==
    IF parts = <<>> THEN <<>>
    ELSE IF Len(parts) = 1 THEN parts[1]
    ELSE parts[1] \o <<c>> \o Join(Tail(parts), c)

\* ------------------------------------------------------------ path/filepath

\* filepath.IsAbs
IsAbs(p) == Len(p) > 0 /\ p[1] = Sep

Dot == <<".">>
DotDot == <<".", ".">>

\* the segment stack filepath.Clean builds, left to right
RECURSIVE CleanSegs(_, _, _)
CleanSegs(segs, out, rooted) ==
    IF segs = <<>> THEN out
    ELSE LET s == Head(segs)
             rest == Tail(segs)
         IN  IF s = <<>> \/ s = Dot THEN CleanSegs(rest, out, rooted)
             ELSE IF s = DotDot THEN
                 IF out /= <<>> /\ out[Len(out)] /= DotDot
                     THEN CleanSegs(rest, SubSeq(out, 1, Len(out) - 1), rooted)
                 ELSE IF rooted THEN CleanSegs(rest, out, rooted)
                 ELSE CleanSegs(rest, Append(out, s), rooted)
             ELSE CleanSegs(rest, Append(out, s), rooted)

\* filepath.Clean
Clean(p) ==
    LET rooted == IsAbs(p)
        out == CleanSegs(Split(p, Sep), <<>>, rooted)
    IN  IF rooted THEN <<Sep>> \o Join(out, Sep)
        ELSE IF out = <<>> THEN Dot
        ELSE Join(out, Sep)

\* filepath.Abs, relative to the working directory wd
Abs(p, wd) == IF IsAbs(p) THEN Clean(p) ELSE Clean(wd \o <<Sep>> \o p)

\* filepath.Dir
RECURSIVE LastIndex(_, _, _)
LastIndex(s, c, i) ==
    IF i = 0 THEN 0 ELSE IF s[i] = c THEN i ELSE LastIndex(s, c, i - 1)

Dir(p) == Clean(SubSeq(p, 1, LastIndex(p, Sep, Len(p))))

\* the segments of a cleaned absolute path, "/" being <<>>
Segs(p) == CleanSegs(Split(p, Sep), <<>>, TRUE)

\* the absolute path string of a segment list
PathOf(segs) == <<Sep>> \o Join(segs, Sep)

\* --------------------------------------------------------------- filesystem
\* A real path is a list of segments; "/" is <<>>.

W == <<"w">>
W2 == <<"w", "2">>
E == <<"e">>
Git == <<".", "git">>
Env == <<".", "env">>

\* directories and regular files present at startup
InitialDirs ==
    { <<>>, <<W>>, <<W, <<"s">>>>, <<W, Git>>, <<W2>>, <<E>>, <<E, <<"d">>>> }

InitialFiles ==
    { <<W, <<"f">>>>, <<W, <<"s">>, <<"f">>>>, <<W, Git, <<"c">>>>, <<W, <<"t">>>>,
      <<W2, <<"f">>>>, <<E, <<"f">>>>, <<E, <<"ls">>>>, <<E, <<"d">>, <<"f">>>> }

\* symbolic links: /w/l -> /e (leaves /w), /e/i -> /w (leads into /w),
\* /w/k -> /w/k (a loop)
Links ==
    (<<W, <<"l">>>> :> <<E>>) @@ (<<E, <<"i">>>> :> <<W>>)
        @@ (<<W, <<"k">>>> :> <<W, <<"k">>>>)

Exists(f, real) == real \in f.dirs \/ real \in f.files

Parent(real) == IF real = <<>> THEN <<>> ELSE SubSeq(real, 1, Len(real) - 1)

\* filepath.EvalSymlinks on the segments of a cleaned absolute path.  A path
\* that does not exist resolves to its deepest existing ancestor, resolved,
\* plus the remaining segments as written; a link met twice is an error.
RECURSIVE EvalWalk(_, _, _, _)
EvalWalk(f, cur, rest, seen) ==
    IF rest = <<>> THEN [err |-> "", path |-> cur]
    ELSE LET cand == Append(cur, Head(rest))
         IN  IF cand \in DOMAIN Links THEN
                 IF cand \in seen
                     THEN [err |-> "too many links", path |-> cand]
                     ELSE EvalWalk(f, <<>>, Links[cand] \o Tail(rest), seen \cup {cand})
             ELSE IF Exists(f, cand) THEN EvalWalk(f, cand, Tail(rest), seen)
             ELSE [err |-> "", path |-> cur \o rest]

EvalSymlinks(f, p) == EvalWalk(f, <<>>, Segs(p), {})

\* Canonical form of a requested path: absolute, lexically cleaned, then
\* symlinks resolved.
Canonical(f, wd, p) ==
    LET r == EvalSymlinks(f, Abs(p, wd))
    IN  [err |-> r.err, path |-> PathOf(r.path)]

\* How the kernel resolves the path a system call is given: components left
\* to right, ".." taken physically after links have been followed.
RECURSIVE KernelWalk(_, _, _, _)
KernelWalk(f, cur, rest, seen) ==
    IF rest = <<>> THEN [err |-> "", real |-> cur]
    ELSE LET s == Head(rest)
         IN  IF s = <<>> \/ s = Dot THEN KernelWalk(f, cur, Tail(rest), seen)
             ELSE IF cur \notin f.dirs THEN
                 [err |-> IF cur \in f.files THEN "ENOTDIR" ELSE "ENOENT", real |-> cur]
             ELSE IF s = DotDot THEN KernelWalk(f, Parent(cur), Tail(rest), seen)
             ELSE LET cand == Append(cur, s)
                  IN  IF cand \in DOMAIN Links THEN
                          IF cand \in seen THEN [err |-> "ELOOP", real |-> cand]
                          ELSE KernelWalk(f, <<>>, Links[cand] \o Tail(rest),
                                          seen \cup {cand})
                      ELSE KernelWalk(f, cand, Tail(rest), seen)

KernelResolve(f, wd, p) ==
    IF IsAbs(p) THEN KernelWalk(f, <<>>, Split(p, Sep), {})
    ELSE KernelWalk(f, Segs(wd), Split(p, Sep), {})

\* os.Stat: "dir", "file", "ENOENT" (os.IsNotExist) or another error
Stat(f, wd, p) ==
    LET r == KernelResolve(f, wd, p)
    IN  IF r.err = "ENOENT" THEN "ENOENT"
        ELSE IF r.err /= "" THEN r.err
        ELSE IF r.real \in f.dirs THEN "dir"
        ELSE IF r.real \in f.files THEN "file"
        ELSE "ENOENT"

\* os.MkdirAll: every missing directory on the way is created
RECURSIVE MkdirWalk(_, _, _, _)
MkdirWalk(dirs, files, cur, rest) ==
    IF rest = <<>> THEN [err |-> "", dirs |-> dirs]
    ELSE LET s == Head(rest)
         IN  IF s = <<>> \/ s = Dot THEN MkdirWalk(dirs, files, cur, Tail(rest))
             ELSE IF s = DotDot THEN MkdirWalk(dirs, files, Parent(cur), Tail(rest))
             ELSE LET cand == Append(cur, s)
                  IN  IF cand \in DOMAIN Links THEN
                          IF Links[cand] = cand THEN [err |-> "ELOOP", dirs |-> dirs]
                          ELSE MkdirWalk(dirs, files, <<>>, Links[cand] \o Tail(rest))
                      ELSE IF cand \in files THEN [err |-> "ENOTDIR", dirs |-> dirs]
                      ELSE MkdirWalk(dirs \cup {cand}, files, cand, Tail(rest))

MkdirAll(f, wd, p) ==
    IF IsAbs(p) THEN MkdirWalk(f.dirs, f.files, <<>>, Split(p, Sep))
    ELSE MkdirWalk(f.dirs, f.files, Segs(wd), Split(p, Sep))

\* os.OpenFile with O_WRONLY|O_CREATE: the file is created when its parent
\* directory exists
OpenFile(f, wd, p) ==
    LET r == KernelResolve(f, wd, p)
    IN  IF r.err /= "" THEN [err |-> r.err, files |-> f.files]
        ELSE IF r.real \in f.dirs THEN [err |-> "EISDIR", files |-> f.files]
        ELSE IF Parent(r.real) \notin f.dirs THEN [err |-> "ENOENT", files |-> f.files]
        ELSE [err |-> "", files |-> f.files \cup {r.real}]

\* ------------------------------------------------------------ configuration
\* config.ServerConfig: AllowedPaths and DenyListPaths, two lists of strings.

\* the sensitive names always denied under an allowed root
SensitiveNames == <<Git, Env>>

\* the entries of a colon-separated environment value as canonical absolute
\* roots (no trailing separator); empty entries are dropped
RECURSIVE CanonicalRoots(_, _)
CanonicalRoots(entries, wd) ==
    IF entries = <<>> THEN <<>>
    ELSE IF Head(entries) = <<>> THEN CanonicalRoots(Tail(entries), wd)
    ELSE <<Abs(Head(entries), wd)>> \o CanonicalRoots(Tail(entries), wd)

\* root/.git and root/.env for every allowed root
RECURSIVE SensitiveDefaults(_)
SensitiveDefaults(roots) ==
    IF roots = <<>> THEN <<>>
    ELSE <<Head(roots) \o <<Sep>> \o SensitiveNames[1],
           Head(roots) \o <<Sep>> \o SensitiveNames[2]>>
         \o SensitiveDefaults(Tail(roots))

\* config.NewConfigFromEnv: defaults, then the environment.  With no
\* MCP_ALLOWED_PATHS the startup working directory is the only allowed root;
\* the sensitive defaults are appended to whatever MCP_DENIED_PATHS gives.
NewConfigFromEnv(ea, ed, wd) ==
    LET allowed == IF ea = <<>> THEN <<wd>> ELSE CanonicalRoots(Split(ea, ":"), wd)
        denied == IF ed = <<>> THEN <<>> ELSE CanonicalRoots(Split(ed, ":"), wd)
    IN  [AllowedPaths |-> allowed,
         DenyListPaths |-> denied \o SensitiveDefaults(allowed)]

\* createServerConfig, with the allowed list replaced by the flag's entries
\* whether or not the flag is set
createServerConfigNoEmptyCheck(ea, ed, pf, df, wd) ==
    LET cfg == NewConfigFromEnv(ea, ed, wd)
    IN  [AllowedPaths |-> Split(pf, ":"),
         DenyListPaths |-> IF df /= <<>> THEN Split(df, ":") ELSE cfg.DenyListPaths]

\* createServerConfig, with the flags' entries appended to the lists
createServerConfigMerging(ea, ed, pf, df, wd) ==
    LET cfg == NewConfigFromEnv(ea, ed, wd)
    IN  [AllowedPaths |-> IF pf /= <<>> THEN cfg.AllowedPaths \o Split(pf, ":")
                          ELSE cfg.AllowedPaths,
         DenyListPaths |-> IF df /= <<>> THEN cfg.DenyListPaths \o Split(df, ":")
                           ELSE cfg.DenyListPaths]

\* createServerConfig: the environment-based configuration, each list
\* overwritten by the split flag when the flag is not empty
createServerConfig(ea, ed, pf, df, wd) ==
    LET cfg == NewConfigFromEnv(ea, ed, wd)
    IN  [AllowedPaths |-> IF pf /= <<>> THEN Split(pf, ":") ELSE cfg.AllowedPaths,
         DenyListPaths |-> IF df /= <<>> THEN Split(df, ":") ELSE cfg.DenyListPaths]

\* segment-boundary prefix match of root r against canonical path p
MatchesRoot(r, p) == p = r \/ HasPrefix(p, r \o <<Sep>>)

AnyRootMatches(roots, p) == \E i \in 1..Len(roots) : MatchesRoot(roots[i], p)

\* ServerConfig.IsPathAllowed: the verdict (allowed, err).  Deny roots are
\* compared first; an empty allowed list stands for the working directory.
IsPathAllowed(cfg, f, wd, p) ==
    LET c == Canonical(f, wd, p)
        allowedRoots == IF cfg.AllowedPaths = <<>> THEN <<wd>> ELSE cfg.AllowedPaths
    IN  IF c.err /= "" THEN [allowed |-> FALSE, err |-> c.err]
        ELSE IF AnyRootMatches(cfg.DenyListPaths, c.path)
            THEN [allowed |-> FALSE, err |-> ""]
        ELSE [allowed |-> AnyRootMatches(allowedRoots, c.path), err |-> ""]

\* -------------------------------------------------------------------- tools
\* A handler returns the response it builds, the calls it made in order and
\* the filesystem it leaves.  The fault of a request says whether the file
\* operation that can fail for a reason outside the model (ReadFile, Open,
\* WriteString) does fail.  A response is the JSON result: success, the
\* error message, the error text appended to it, and for
\* execute_shell_command the exit code (0 where the result has none).

FileDeniedMsg == "Access to this file path is not allowed by server configuration"
ParentDeniedMsg == "Access to the parent directory is not allowed by server configuration"
WorkingDirDeniedMsg == "Working directory is not allowed by server configuration"
CommandDeniedMsg == "Command is not allowed for security reasons"

Response(success, error, detail, exitCode) ==
    [success |-> success, error |-> error, detail |-> detail, exitCode |-> exitCode]

\* the two values Execute returns: utils.CreateSuccessResponse(result), nil
Returned == [kind |-> "return", response |-> TRUE, err |-> "nil"]

\* Execute did not return: a run-time panic unwound it
Panic == [kind |-> "panic", response |-> FALSE, err |-> "nil"]

Outcome(r, calls, f) == [resp |-> r, ret |-> Returned, trace |-> calls, fs |-> f]

Panicked(calls, f) ==
    [resp |-> Response(FALSE, "", "", 0), ret |-> Panic, trace |-> calls, fs |-> f]

\* the calls made so far, the verdict call included when a config is set
Checked(hasCfg) == IF hasCfg THEN <<"IsPathAllowed">> ELSE <<>>

\* position of the first call of that name in the trace, 0 when there is none
RECURSIVE FirstCall(_, _, _)
FirstCall(calls, name, i) ==
    IF i > Len(calls) THEN 0
    ELSE IF calls[i] = name THEN i
    ELSE FirstCall(calls, name, i + 1)

\* show_file's denial test, blind to the verdict itself
ShowFileDeniedErrOnly(allowed, err) == err /= ""

\* show_file's denial test, with 'and' for 'or'
ShowFileDeniedBoth(allowed, err) == err /= "" /\ ~allowed

\* show_file: err != nil || !allowed
ShowFileDenied(allowed, err) == err /= "" \/ ~allowed

\* number of lines strings.Split finds in the content of a regular file
LinesPerFile == 3

\* a Go slice expression s[lo:hi] over n elements is in range
SliceInRange(lo, hi, n) == 0 <= lo /\ lo <= hi /\ hi <= n

\* show_file's choice of lines; numLines is <<>> for a nil *int
SelectLines(totalLines, startLineArg, numLines) ==
    LET startLine == IF startLineArg < 1 THEN 1 ELSE startLineArg
        startIndex == startLine - 1
        wanted == startIndex + numLines[1]
        endIndex == IF numLines /= <<>>
                        THEN (IF wanted > totalLines THEN totalLines ELSE wanted)
                        ELSE totalLines
    IN  [beyond |-> startLine > totalLines,
         startIndex |-> startIndex,
         endIndex |-> endIndex]

\* ShowFileTool.Execute
ShowFileExecute(hasCfg, cfg, f, wd, a) ==
    LET v == IsPathAllowed(cfg, f, wd, a.path)
        st == Stat(f, wd, a.path)
        sel == SelectLines(LinesPerFile, a.startLine, a.numLines)
    IN  IF hasCfg /\ ShowFileDenied(v.allowed, v.err)
            THEN Outcome(Response(FALSE, FileDeniedMsg, v.err, 0), Checked(hasCfg), f)
        ELSE IF st = "ENOENT"
            THEN Outcome(Response(FALSE, "File does not exist", "", 0),
                         Checked(hasCfg) \o <<"Stat">>, f)
        ELSE IF st \notin {"dir", "file"}
            THEN Outcome(Response(FALSE, "Error checking file", st, 0),
                         Checked(hasCfg) \o <<"Stat">>, f)
        ELSE IF st = "dir"
            THEN Outcome(Response(FALSE, "is a directory, not a file", "", 0),
                         Checked(hasCfg) \o <<"Stat">>, f)
        ELSE IF a.fault
            THEN Outcome(Response(FALSE, "Error reading file", "EIO", 0),
                         Checked(hasCfg) \o <<"Stat", "ReadFile">>, f)
        ELSE IF sel.beyond
            THEN Outcome(Response(FALSE, "Start line is beyond the file length", "", 0),
                         Checked(hasCfg) \o <<"Stat", "ReadFile">>, f)
        ELSE IF ~SliceInRange(sel.startIndex, sel.endIndex, LinesPerFile)
            THEN Panicked(Checked(hasCfg) \o <<"Stat", "ReadFile">>, f)
        ELSE Outcome(Response(TRUE, "", "", 0),
                     Checked(hasCfg) \o <<"Stat", "ReadFile">>, f)

\* search_in_file's denial test, blind to the verdict itself
SearchFileDeniedErrOnly(allowed, err) == err /= ""

\* search_in_file's denial test, inverted
SearchFileDeniedInverted(allowed, err) == err /= "" \/ allowed

\* search_in_file: err != nil || !allowed
SearchFileDenied(allowed, err) == err /= "" \/ ~allowed

\* SearchFileTool.Execute
SearchFileExecute(hasCfg, cfg, f, wd, a) ==
    LET v == IsPathAllowed(cfg, f, wd, a.path)
        st == Stat(f, wd, a.path)
    IN  IF hasCfg /\ SearchFileDenied(v.allowed, v.err)
            THEN Outcome(Response(FALSE, FileDeniedMsg, v.err, 0), Checked(hasCfg), f)
        ELSE IF st = "ENOENT"
            THEN Outcome(Response(FALSE, "File does not exist", "", 0),
                         Checked(hasCfg) \o <<"Stat">>, f)
        ELSE IF st \notin {"dir", "file"}
            THEN Outcome(Response(FALSE, "Error checking file", st, 0),
                         Checked(hasCfg) \o <<"Stat">>, f)
        ELSE IF a.fault
            THEN Outcome(Response(FALSE, "Error opening file", "EACCES", 0),
                         Checked(hasCfg) \o <<"Stat", "Open">>, f)
        ELSE IF ~a.patternOk
            THEN Outcome(Response(FALSE, "Invalid regular expression", "", 0),
                         Checked(hasCfg) \o <<"Stat", "Open">>, f)
        ELSE IF st = "dir"
            THEN Outcome(Response(FALSE, "Error reading file", "EISDIR", 0),
                         Checked(hasCfg) \o <<"Stat", "Open", "Read">>, f)
        ELSE Outcome(Response(TRUE, "", "", 0),
                     Checked(hasCfg) \o <<"Stat", "Open", "Read">>, f)

\* write_file's denial test, blind to the verdict itself
WriteFileDeniedErrOnly(allowed, err) == err /= ""

\* write_file's denial test, with 'and' for 'or'
WriteFileDeniedBoth(allowed, err) == err /= "" /\ ~allowed

\* write_file: err != nil || !allowed
WriteFileDenied(allowed, err) == err /= "" \/ ~allowed

\* WriteFileTool.Execute
WriteFileExecute(hasCfg, cfg, f, wd, a) ==
    LET v == IsPathAllowed(cfg, f, wd, a.path)
        dir == Dir(a.path)
        vd == IsPathAllowed(cfg, f, wd, dir)
        md == MkdirAll(f, wd, dir)
        f1 == [f EXCEPT !.dirs = md.dirs]
        op == OpenFile(f1, wd, a.path)
        f2 == [f1 EXCEPT !.files = op.files]
    IN  IF hasCfg /\ WriteFileDenied(v.allowed, v.err)
            THEN Outcome(Response(FALSE, FileDeniedMsg, v.err, 0), Checked(hasCfg), f)
        ELSE IF hasCfg /\ WriteFileDenied(vd.allowed, vd.err)
            THEN Outcome(Response(FALSE, ParentDeniedMsg, vd.err, 0),
                         Checked(hasCfg) \o Checked(hasCfg), f)
        ELSE IF md.err /= ""
            THEN Outcome(Response(FALSE, "Error creating directories", md.err, 0),
                         Checked(hasCfg) \o Checked(hasCfg) \o <<"MkdirAll">>, f1)
        ELSE IF op.err /= ""
            THEN Outcome(Response(FALSE, "Error opening file", op.err, 0),
                         Checked(hasCfg) \o Checked(hasCfg) \o <<"MkdirAll", "OpenFile">>,
                         f1)
        ELSE IF a.fault
            THEN Outcome(Response(FALSE, "Error writing to file", "EIO", 0),
                         Checked(hasCfg) \o Checked(hasCfg)
                             \o <<"MkdirAll", "OpenFile", "WriteString">>, f2)
        ELSE Outcome(Response(TRUE, "", "", 0),
                     Checked(hasCfg) \o Checked(hasCfg)
                         \o <<"MkdirAll", "OpenFile", "WriteString">>, f2)

\* a working directory that was not supplied (WorkingDir == nil)
Nil == <<"<nil>">>

\* the static whitelist of isCommandAllowed
allowedCommands ==
    { <<"ls">>, <<"find">>, <<"grep">>, <<"cat">>, <<"echo">>,
      <<"pwd">>, <<"cd">>, <<"mkdir">>, <<"rm">>, <<"cp">>, <<"mv">>,
      <<"touch">>, <<"head">>, <<"tail">>, <<"wc">>, <<"sort">>,
      <<"uniq">>, <<"cut">>, <<"tr">>, <<"sed">>, <<"awk">>,
      <<"ps">>, <<"top">>, <<"df">>, <<"du">>, <<"free">>,
      <<"which">>, <<"whereis">>, <<"whatis">>, <<"file">>,
      <<"zip">>, <<"unzip">>, <<"tar">>, <<"gzip">>, <<"gunzip">> }

\* the token is treated as a path: absolute, or holding "/" or "\"
IsPathToken(command) ==
    IsAbs(command) \/ Contains(command, Sep) \/ Contains(command, "\\")

\* strings.ToLower over the atoms of the model
ToLower(command) == [i \in 1..Len(command) |->
                        IF command[i] = "Ls" THEN "ls" ELSE command[i]]

\* filepath.Base of a path token
Base(command) ==
    LET parts == Split(command, Sep) IN <<>> \o parts[Len(parts)]

\* isCommandAllowed, looking the name up without regard to case
isCommandAllowedAnyCase(hasCfg, cfg, f, wd, command) ==
    IF IsPathToken(command) /\ hasCfg
        THEN IsPathAllowed(cfg, f, wd, command).allowed
        ELSE ToLower(command) \in allowedCommands

\* isCommandAllowed, admitting a path token by its base name as well
isCommandAllowedBaseName(hasCfg, cfg, f, wd, command) ==
    IF IsPathToken(command) /\ hasCfg
        THEN IsPathAllowed(cfg, f, wd, command).allowed
             \/ Base(command) \in allowedCommands
        ELSE command \in allowedCommands

\* isCommandAllowed, admitting a path token whose verdict could not be computed
isCommandAllowedFailOpen(hasCfg, cfg, f, wd, command) ==
    IF IsPathToken(command) /\ hasCfg
        THEN LET v == IsPathAllowed(cfg, f, wd, command) IN v.allowed \/ v.err /= ""
        ELSE command \in allowedCommands

\* ExecuteShellTool.isCommandAllowed: a path token gets the path verdict
\* (its error dropped), any other token is looked up in the whitelist
isCommandAllowed(hasCfg, cfg, f, wd, command) ==
    IF IsPathToken(command) /\ hasCfg
        THEN IsPathAllowed(cfg, f, wd, command).allowed
        ELSE command \in allowedCommands

\* the admission looking at the last element of the command array
ArgvLast(command) == command[Len(command)]

\* args.Command[0], the element of the command array the admission looks at
Argv0(command) == command[1]

\* the test for an empty command array, never true
EmptyCommandNever(command) == FALSE

\* len(args.Command) == 0
EmptyCommand(command) == Len(command) = 0

\* execute_shell_command's working-directory test, blind to the verdict itself
WorkingDirDeniedErrOnly(allowed, err) == err /= ""

\* execute_shell_command's working-directory test: err != nil || !allowed
WorkingDirDenied(allowed, err) == err /= "" \/ ~allowed

\* ExecuteShellTool.Execute as one call that returns; run is what the
\* launched process does: "start_error", "exit0", "exit1", "wait_error" or
\* "timeout"
ExecuteShellExecute(hasCfg, cfg, f, wd, a, run) ==
    LET vw == IsPathAllowed(cfg, f, wd, a.workingDir)
        admitted == <<"isCommandAllowed">>
                    \o (IF a.workingDir /= Nil /\ hasCfg THEN <<"IsPathAllowed">>
                        ELSE <<>>)
    IN  IF EmptyCommand(a.command)
            THEN Outcome(Response(FALSE, "Empty command", "", 0), <<>>, f)
        ELSE IF Len(a.command) = 0
            \* args.Command[0] of an empty slice: index out of range
            THEN Panicked(<<>>, f)
        ELSE IF ~isCommandAllowed(hasCfg, cfg, f, wd, Argv0(a.command))
            THEN Outcome(Response(FALSE, CommandDeniedMsg, "", -1),
                         <<"isCommandAllowed">>, f)
        ELSE IF a.workingDir /= Nil /\ hasCfg /\ WorkingDirDenied(vw.allowed, vw.err)
            THEN Outcome(Response(FALSE, WorkingDirDeniedMsg, vw.err, -1), admitted, f)
        ELSE IF run = "start_error"
            THEN Outcome(Response(FALSE, "Error starting command", "", -1),
                         admitted \o <<"Start">>, f)
        ELSE IF run = "timeout"
            THEN Outcome(Response(FALSE, "Command timed out", "", -1),
                         admitted \o <<"Start", "Kill">>, f)
        ELSE IF run = "exit0"
            THEN Outcome(Response(TRUE, "", "", 0), admitted \o <<"Start", "Wait">>, f)
        ELSE IF run = "exit1"
            THEN Outcome(Response(FALSE, "", "", 1), admitted \o <<"Start", "Wait">>, f)
        ELSE Outcome(Response(FALSE, "", "", -1), admitted \o <<"Start", "Wait">>, f)

\* timeout := 60
DefaultTimeout == 60

\* the local timeout of Execute: args.Timeout if positive, else the default
EffectiveTimeout(t) == IF t > 0 THEN t ELSE DefaultTimeout

\* the error cmd.Wait returns for the way the process ended: nil, an
\* *exec.ExitError with its ExitCode() (-1 for a process ended by a signal),
\* or another error when waiting itself failed
WaitError(ended) ==
    [isNil |-> ended = "exit0",
     isExitError |-> ended \in {"exit1", "signal"},
     exitCode |-> IF ended = "exit1" THEN 1 ELSE IF ended = "signal" THEN -1 ELSE 0]

\* the done case of the select, counting every completion a success
ExitResultIgnoresError(err) == [success |-> TRUE, exitCode |-> 0]

\* the done case of the select: success and exit code from the error of Wait
ExitResult(err) ==
    IF ~err.isNil
        THEN [success |-> FALSE,
              exitCode |-> IF err.isExitError THEN err.exitCode ELSE -1]
        ELSE [success |-> TRUE, exitCode |-> 0]

\* the calls of Execute up to and including cmd.Start, <<>> when it returns
\* before it
CallsToStart(hasCfg, cfg, f, wd, a) ==
    LET calls == ExecuteShellExecute(hasCfg, cfg, f, wd, a, "exit0").trace
    IN  SubSeq(calls, 1, FirstCall(calls, "Start", 1))

\* ------------------------------------------------------------------- inputs

MaxWrites == 1

StartupDirs == { <<"/", "w">>, <<"/", "e", "d">> }

EnvAllowedValues ==
    { <<>>, <<"/", "w">>, <<"/", "w", ":", "/", "e", "/", "d">> }

EnvDeniedValues == { <<>>, <<"/", "w", "/", "s">> }

PathsFlagValues ==
    { <<>>, <<"/", "w">>, <<"/", "w", "2", ":", "/", "e">>,
      <<"/", "w", "/", ":", "/", "e">> }

DenyFlagValues ==
    { <<>>, <<"/", "w", "/", "s">>, <<"/", "w", ":", "/", "e", "/", "x">> }

RequestPaths ==
    { <<"/", "w">>,
      <<"/", "w", "/", "f">>,
      <<"f">>,
      <<"/", "w", "/", "s", "/", "f">>,
      <<"/", "w", "2", "/", "f">>,
      <<"/", "w", "/", ".", ".", "/", "e", "/", "f">>,
      <<"/", "w", "/", ".", ".", "/", "e", "/", "i", "/", "f">>,
      <<"/", "w", "/", "l">>,
      <<"/", "w", "/", "l", "/", "f">>,
      <<"/", "w", "/", "l", "/", "d", "/", "f">>,
      <<"/", "w", "/", "l", "/", ".", ".", "/", "f">>,
      <<"/", "w", "/", "l", "/", "n">>,
      <<"/", "w", "/", "n", "/", "x">>,
      <<"/", "w", "/", "k">>,
      <<"/", "e", "/", "f">>,
      <<"/", "w", "/", ".", "git", "/", "c">> }

CommandTokens ==
    { <<"ls">>, <<"Ls">>, <<"curl">>, <<>>, <<"rm">>,
      <<"/", "w", "/", "t">>, <<"/", "e", "/", "ls">>, <<".", "/", "t">>,
      <<"/", "w", "/", "k">>, <<"w", "\\", "t">> }

Commands ==
    { <<>> } \cup { <<t>> : t \in CommandTokens }
             \cup { <<<<"cat">>, <<"/", "e", "/", "f">>>> }

WorkingDirs == { Nil, <<"/", "w">>, <<"/", "e">>, <<"/", "w", "/", "k">> }

StartLineValues == { 0, 9 }

NumLinesValues == { <<>>, <<-1>>, <<2>> }

\* chunks a process writes to one stream at most
MaxOutput == 1

Streams == { "stdout", "stderr" }

TimeoutArgs == { -1, 0, 5 }

\* how a process ends: exit status 0, exit status 1, ended by a signal, or
\* ended with the wait for it failing
Endings == { "exit0", "exit1", "signal", "unknown" }

NoOutput == [s \in Streams |-> 0]

ProcessRuns == { "start_error", "exit0", "exit1", "wait_error", "timeout" }

Tools == <<"execute_shell_command", "show_file", "search_in_file", "write_file">>

NoConfig == [AllowedPaths |-> <<>>, DenyListPaths |-> <<>>]

Request(tool, path, command, workingDir, fault, patternOk) ==
    [tool |-> tool, path |-> path, command |-> command, workingDir |-> workingDir,
     fault |-> fault, patternOk |-> patternOk, startLine |-> 0, numLines |-> <<>>,
     timeout |-> 0]

NoRequest == Request("", <<>>, <<>>, Nil, FALSE, TRUE)

\* no Execute has ended since the last reply
NoReturn == [kind |-> "none", response |-> FALSE, err |-> "nil"]

NoResponse == Response(FALSE, "", "", 0)

\* ------------------------------------------------------------ state machine

\* no process is in flight
ShellIdle ==
    /\ epc = "idle"
    /\ timeout = 0
    /\ proc = "none"
    /\ wOpen = FALSE
    /\ wrote = NoOutput
    /\ rOpen = FALSE
    /\ data = NoOutput
    /\ done = <<>>

Init ==
    /\ pc = "main"
    /\ envAllowed \in EnvAllowedValues
    /\ envDenied \in EnvDeniedValues
    /\ pathsFlag \in PathsFlagValues
    /\ denyFlag \in DenyFlagValues
    /\ cwd \in StartupDirs
    /\ config = NoConfig
    /\ toolConfig = [t \in 1..Len(Tools) |-> FALSE]
    /\ registered = {}
    /\ fs = [dirs |-> InitialDirs, files |-> InitialFiles]
    /\ req = NoRequest
    /\ resp = NoResponse
    /\ ret = NoReturn
    /\ trace = <<>>
    /\ writes = 0
    /\ ShellIdle
    /\ serve = "off"
    /\ stopper = "idle"
    /\ closes = 0

inputs == <<envAllowed, envDenied, pathsFlag, denyFlag, cwd>>
request == <<req, resp, ret, trace, fs, writes>>
shell == <<epc, timeout, proc, wOpen, wrote, rOpen, data, done>>
lifecycle == <<serve, stopper, closes>>

\* the process is alive: it has not left by os.Exit, and no close of a
\* closed channel has panicked
Alive == stopper /= "exited" /\ closes <= 1

\* main: serverConfig := createServerConfig()
MainCreateConfig ==
    /\ pc = "main"
    /\ config' = createServerConfig(envAllowed, envDenied, pathsFlag, denyFlag, cwd)
    /\ pc' = "configured"
    /\ UNCHANGED <<inputs, toolConfig, registered, request, shell, lifecycle>>

\* main: server.NewServerWithConfig(serverConfig)
MainNewServer ==
    /\ pc = "configured"
    /\ pc' = "registering"
    /\ UNCHANGED <<inputs, config, toolConfig, registered, request, shell, lifecycle>>

\* Server.RegisterTool without the SetConfig call
RegisterToolNoSetConfig(t) ==
    /\ pc = "registering"
    /\ t = Cardinality(registered) + 1
    /\ registered' = registered \cup {t}
    /\ UNCHANGED <<inputs, pc, config, toolConfig, request, shell, lifecycle>>

\* Server.RegisterTool, called by registerTools for each tool in turn:
\* SetConfig(s.Config), then the handler is registered with the transport
RegisterTool(t) ==
    /\ pc = "registering"
    /\ t = Cardinality(registered) + 1
    /\ toolConfig' = [toolConfig EXCEPT ![t] = TRUE]
    /\ registered' = registered \cup {t}
    /\ UNCHANGED <<inputs, pc, config, request, shell, lifecycle>>

\* main: mcpServer.Start(), which starts the goroutine that calls Serve
MainStart ==
    /\ pc = "registering"
    /\ Cardinality(registered) = Len(Tools)
    /\ Alive
    /\ pc' = "serving"
    /\ serve' = "running"
    /\ UNCHANGED <<inputs, config, toolConfig, registered, request, shell,
                   stopper, closes>>

\* the transport hands a request to a registered handler once Serve runs;
\* one request is in the handler at a time
Serving(t) == pc = "serving" /\ t \in registered /\ req = NoRequest

Finish(r, out) ==
    /\ req' = r
    /\ resp' = out.resp
    /\ ret' = out.ret
    /\ trace' = out.trace
    /\ fs' = out.fs
    /\ writes' = IF out.fs /= fs THEN writes + 1 ELSE writes
    /\ out.fs /= fs => writes < MaxWrites
    /\ UNCHANGED <<inputs, pc, config, toolConfig, registered, shell, lifecycle>>

ExecuteShell(command, workingDir, run) ==
    /\ Serving(1)
    /\ LET r == Request(Tools[1], <<>>, command, workingDir, FALSE, TRUE)
       IN  Finish(r, ExecuteShellExecute(toolConfig[1], config, fs, cwd, r, run))

ShowFile(path, fault, startLine, numLines) ==
    /\ Serving(2)
    /\ LET r == [Request(Tools[2], path, <<>>, Nil, fault, TRUE)
                    EXCEPT !.startLine = startLine, !.numLines = numLines]
       IN  Finish(r, ShowFileExecute(toolConfig[2], config, fs, cwd, r))

SearchFile(path, fault, patternOk) ==
    /\ Serving(3)
    /\ LET r == Request(Tools[3], path, <<>>, Nil, fault, patternOk)
       IN  Finish(r, SearchFileExecute(toolConfig[3], config, fs, cwd, r))

WriteFile(path, fault) ==
    /\ Serving(4)
    /\ LET r == Request(Tools[4], path, <<>>, Nil, fault, TRUE)
       IN  Finish(r, WriteFileExecute(toolConfig[4], config, fs, cwd, r))

\* the handler has returned and the transport sends the response
Reply ==
    /\ pc = "serving"
    /\ req /= NoRequest
    /\ ret /= NoReturn
    /\ req' = NoRequest
    /\ resp' = NoResponse
    /\ ret' = NoReturn
    /\ trace' = <<>>
    /\ epc' = "idle"
    /\ timeout' = 0
    /\ proc' = "none"
    /\ wOpen' = FALSE
    /\ wrote' = NoOutput
    /\ rOpen' = FALSE
    /\ data' = NoOutput
    /\ done' = <<>>
    /\ UNCHANGED <<inputs, pc, config, toolConfig, registered, fs, writes, lifecycle>>

Next ==
    \/ MainCreateConfig
    \/ MainNewServer
    \/ \E t \in 1..Len(Tools) : RegisterTool(t)
    \/ MainStart
    \/ \E c \in Commands, w \in WorkingDirs, run \in ProcessRuns : ExecuteShell(c, w, run)
    \/ \E p \in RequestPaths, fault \in BOOLEAN,
          sl \in StartLineValues, nl \in NumLinesValues : ShowFile(p, fault, sl, nl)
    \/ \E p \in RequestPaths, fault \in BOOLEAN, ok \in BOOLEAN : SearchFile(p, fault, ok)
    \/ \E p \in RequestPaths, fault \in BOOLEAN : WriteFile(p, fault)
    \/ Reply

Spec == Init /\ [][Next]_vars

\* ------------------------------------- execute_shell_command, step by step
\*
\* Spec takes a call of execute_shell_command in one step, by the outcome of
\* its process.  SpecShell takes the same Execute one statement at a time,
\* next to the process it launched and to the goroutine that calls cmd.Wait.
\* The server is serving, configured as main configures it.

ShellPathsFlags == { <<>>, <<"/", "w", "2", ":", "/", "e">> }

\* the commands of Spec, and cat without an argument and with a second one
ShellCommands ==
    Commands \cup { <<<<"cat">>>>,
                    <<<<"cat">>, <<"/", "w", "/", ".", "git", "/", "c">>>> }

InitShell ==
    /\ pc = "serving"
    /\ envAllowed = <<>>
    /\ envDenied = <<>>
    /\ pathsFlag \in ShellPathsFlags
    /\ denyFlag = <<>>
    /\ cwd \in StartupDirs
    /\ config = createServerConfig(envAllowed, envDenied, pathsFlag, denyFlag, cwd)
    /\ toolConfig = [t \in 1..Len(Tools) |-> TRUE]
    /\ registered = 1..Len(Tools)
    /\ fs = [dirs |-> InitialDirs, files |-> InitialFiles]
    /\ req = NoRequest
    /\ resp = NoResponse
    /\ ret = NoReturn
    /\ trace = <<>>
    /\ writes = 0
    /\ ShellIdle
    /\ serve = "running"
    /\ stopper = "idle"
    /\ closes = 0

server == <<pc, config, toolConfig, registered, fs, writes, lifecycle>>

\* Execute from its entry to cmd.Start: it returns at a refused check or at
\* a failed Start, or the process runs and Execute goes on to read stdout
ExecuteShellStart(command, workingDir, timeoutArg, started) ==
    /\ Serving(1)
    /\ LET r == [Request(Tools[1], <<>>, command, workingDir, FALSE, TRUE)
                    EXCEPT !.timeout = timeoutArg]
           calls == CallsToStart(toolConfig[1], config, fs, cwd, r)
       IN  IF calls = <<>> \/ ~started
               THEN Finish(r, ExecuteShellExecute(toolConfig[1], config, fs, cwd, r,
                                                  "start_error"))
               ELSE /\ req' = r
                    /\ trace' = calls
                    /\ timeout' = EffectiveTimeout(timeoutArg)
                    /\ epc' = "stdout"
                    /\ proc' = "running"
                    /\ wOpen' = TRUE
                    /\ rOpen' = TRUE
                    /\ UNCHANGED <<inputs, server, resp, ret, wrote, data, done>>

\* Execute is between cmd.Start and its return
InFlight == epc /= "idle"

\* the process writes a chunk to one of its output streams
ProcWrite(s) ==
    /\ InFlight
    /\ proc = "running"
    /\ wOpen
    /\ wrote[s] < MaxOutput
    /\ wrote' = [wrote EXCEPT ![s] = @ + 1]
    /\ UNCHANGED <<inputs, server, req, resp, ret, trace,
                   epc, timeout, proc, wOpen, rOpen, data, done>>

\* the process closes its output streams and keeps running
ProcCloseOutput ==
    /\ InFlight
    /\ proc = "running"
    /\ wOpen
    /\ wOpen' = FALSE
    /\ UNCHANGED <<inputs, server, req, resp, ret, trace,
                   epc, timeout, proc, wrote, rOpen, data, done>>

\* the process ends; the write ends of its pipes close with it
ProcExit(ending) ==
    /\ InFlight
    /\ proc = "running"
    /\ proc' = ending
    /\ wOpen' = FALSE
    /\ UNCHANGED <<inputs, server, req, resp, ret, trace,
                   epc, timeout, wrote, rOpen, data, done>>

\* go func() { done <- cmd.Wait() }(): Wait sees the process ended, closes
\* the read ends of the pipes and its error is sent to done
WaitReturns ==
    /\ InFlight
    /\ proc \in Endings
    /\ rOpen
    /\ rOpen' = FALSE
    /\ done' = <<WaitError(proc)>>
    /\ UNCHANGED <<inputs, server, req, resp, ret, trace,
                   epc, timeout, proc, wOpen, wrote, data>>

\* io.ReadAll reads a chunk that is in the pipe
ReadChunk(s) ==
    /\ epc = s
    /\ rOpen
    /\ data[s] < wrote[s]
    /\ data' = [data EXCEPT ![s] = @ + 1]
    /\ UNCHANGED <<inputs, server, req, resp, ret, trace,
                   epc, timeout, proc, wOpen, wrote, rOpen, done>>

AfterRead(s) == IF s = "stdout" THEN "stderr" ELSE "select"

\* io.ReadAll returns at end of file: the pipe is empty and no writer is left
ReadEOF(s) ==
    /\ epc = s
    /\ rOpen
    /\ data[s] = wrote[s]
    /\ ~wOpen
    /\ epc' = AfterRead(s)
    /\ UNCHANGED <<inputs, server, req, resp, ret, trace,
                   timeout, proc, wOpen, wrote, rOpen, data, done>>

\* io.ReadAll returns what it has with the error of a read from a closed
\* file; the error is discarded
ReadClosed(s) ==
    /\ epc = s
    /\ ~rOpen
    /\ epc' = AfterRead(s)
    /\ UNCHANGED <<inputs, server, req, resp, ret, trace,
                   timeout, proc, wOpen, wrote, rOpen, data, done>>

\* case err := <-done, and the return that follows
SelectDone ==
    /\ epc = "select"
    /\ done /= <<>>
    /\ LET result == ExitResult(done[1])
       IN  resp' = Response(result.success, "", "", result.exitCode)
    /\ ret' = Returned
    /\ trace' = trace \o <<"Wait">>
    /\ epc' = "idle"
    /\ done' = <<>>
    /\ UNCHANGED <<inputs, server, req, timeout, proc, wOpen, wrote, rOpen, data>>

\* case <-time.After(timeout seconds): the timer is created when the select
\* is reached and is at least a second long, so it fires only while the
\* select waits for a process that is still running
SelectTimeout ==
    /\ epc = "select"
    /\ done = <<>>
    /\ proc = "running"
    /\ resp' = Response(FALSE, "Command timed out", "", -1)
    /\ ret' = Returned
    /\ trace' = trace \o <<"Kill">>
    /\ epc' = "idle"
    /\ proc' = "signal"
    /\ wOpen' = FALSE
    /\ UNCHANGED <<inputs, server, req, timeout, wrote, rOpen, data, done>>

MainFlow ==
    \/ \E s \in Streams : ReadChunk(s)
    \/ \E s \in Streams : ReadEOF(s)
    \/ \E s \in Streams : ReadClosed(s)
    \/ SelectDone
    \/ SelectTimeout

NextShell ==
    \/ \E c \in ShellCommands, w \in WorkingDirs, t \in TimeoutArgs,
          started \in BOOLEAN : ExecuteShellStart(c, w, t, started)
    \/ \E s \in Streams : ProcWrite(s)
    \/ ProcCloseOutput
    \/ \E e \in Endings : ProcExit(e)
    \/ WaitReturns
    \/ MainFlow
    \/ Reply

SpecShell == InitShell /\ [][NextShell]_vars

\* the goroutines of the server run when they can and the timer fires when
\* it is due; nothing is assumed of the process
SpecShellFair ==
    /\ SpecShell
    /\ WF_vars(MainFlow)
    /\ WF_vars(WaitReturns)
    /\ WF_vars(Reply)

\* ------------------------------------------------- startup and shutdown
\*
\* SpecLifecycle runs main next to the goroutine Start creates for Serve and
\* to the goroutine setupSignalHandling creates for the signals.

\* signal.Notify has run: setupSignalHandling follows the last registration
SignalsArmed ==
    \/ pc = "serving"
    \/ pc = "registering" /\ Cardinality(registered) = Len(Tools)

\* s.mcpServer.Serve() returns, with an error or without
ServeReturns(failed) ==
    /\ serve = "running"
    /\ Alive
    /\ serve' = IF failed THEN "failing" ELSE "ended"
    /\ UNCHANGED <<inputs, pc, config, toolConfig, registered, request, shell,
                   stopper, closes>>

\* the goroutine of Start: close(s.done) after the error of Serve
ServeCloseDone ==
    /\ serve = "failing"
    /\ Alive
    /\ closes' = closes + 1
    /\ serve' = "ended"
    /\ UNCHANGED <<inputs, pc, config, toolConfig, registered, request, shell,
                   stopper>>

\* sig := <-signals, then mcpServer.Stop() is entered
SignalArrives ==
    /\ SignalsArmed
    /\ stopper = "idle"
    /\ Alive
    /\ stopper' = "stopping"
    /\ UNCHANGED <<inputs, pc, config, toolConfig, registered, request, shell,
                   serve, closes>>

\* Server.Stop: close(s.done)
StopCloseDone ==
    /\ stopper = "stopping"
    /\ Alive
    /\ closes' = closes + 1
    /\ stopper' = "exiting"
    /\ UNCHANGED <<inputs, pc, config, toolConfig, registered, request, shell,
                   serve>>

\* os.Exit(0) after Stop has returned
Exit ==
    /\ stopper = "exiting"
    /\ Alive
    /\ stopper' = "exited"
    /\ UNCHANGED <<inputs, pc, config, toolConfig, registered, request, shell,
                   serve, closes>>

NextLifecycle ==
    \/ MainCreateConfig
    \/ MainNewServer
    \/ \E t \in 1..Len(Tools) : RegisterTool(t)
    \/ MainStart
    \/ \E failed \in BOOLEAN : ServeReturns(failed)
    \/ ServeCloseDone
    \/ SignalArrives
    \/ StopCloseDone
    \/ Exit

SpecLifecycle == Init /\ [][NextLifecycle]_vars

\* ------------------------------------------------------------------- claims

FileTools == { Tools[2], Tools[3], Tools[4] }

\* the canonical form of the path of the request in hand
ReqCanonical == Canonical(fs, cwd, req.path)

\* p equals root r, or continues it with a separator right after r
UnderRoot(p, r) ==
    \/ p = r
    \/ \E k \in 1..Len(p) : SubSeq(p, 1, k - 1) = r /\ p[k] = Sep

UnderSome(p, roots) == \E i \in 1..Len(roots) : UnderRoot(p, roots[i])

\* the handler answered with the path denial and made no filesystem call
PathDenied ==
    /\ resp.success = FALSE
    /\ resp.error = FileDeniedMsg
    /\ \A i \in 1..Len(trace) : trace[i] = "IsPathAllowed"

\* C1: a file tool asked for a path whose canonical form is under a denied
\* root answers with the denial and does no file I/O, also when the path is
\* under an allowed root as well.
C1_DenyAlwaysWins ==
    (/\ req.tool \in FileTools
     /\ ReqCanonical.err = ""
     /\ UnderSome(ReqCanonical.path, config.DenyListPaths))
    => PathDenied

C1_Witness ==
    /\ req.tool = "show_file"
    /\ ReqCanonical.err = ""
    /\ UnderSome(ReqCanonical.path, config.DenyListPaths)
    /\ UnderSome(ReqCanonical.path, config.AllowedPaths)
    /\ PathDenied

\* C2: for a path whose canonical form is under no denied root, a file tool
\* lets the request past the path check exactly when the canonical form is
\* under an allowed root, whether or not the file exists yet.
C2_AllowedIffUnderAllowedRoot ==
    (/\ req.tool \in FileTools
     /\ ReqCanonical.err = ""
     /\ ~UnderSome(ReqCanonical.path, config.DenyListPaths))
    => (resp.error /= FileDeniedMsg
            <=> UnderSome(ReqCanonical.path, config.AllowedPaths))

\* write_file created a file that was not there, in a directory that was not
\* there either
C2_Witness ==
    /\ req.tool = "write_file"
    /\ resp.success
    /\ \E file \in fs.files \ InitialFiles :
           /\ PathOf(file) = ReqCanonical.path
           /\ Parent(file) \notin InitialDirs
    /\ UnderSome(ReqCanonical.path, config.AllowedPaths)

\* r is a plain string prefix of p that does not end at a segment boundary
PlainPrefixOnly(p, r) == HasPrefix(p, r) /\ ~UnderRoot(p, r)

AnyPlainPrefixOnly(p, roots) == \E i \in 1..Len(roots) : PlainPrefixOnly(p, roots[i])

\* C3: a root that is only a plain string prefix of the canonical path
\* (/w against /w2/f) neither allows nor denies it: search_in_file passes
\* the path check exactly when a root of the allowed list matches at a
\* segment boundary and no root of the denied list does.
C3_SegmentBoundaryMatch ==
    (/\ req.tool = "search_in_file"
     /\ ReqCanonical.err = ""
     /\ \/ AnyPlainPrefixOnly(ReqCanonical.path, config.AllowedPaths)
        \/ AnyPlainPrefixOnly(ReqCanonical.path, config.DenyListPaths))
    => (resp.error /= FileDeniedMsg
            <=> /\ UnderSome(ReqCanonical.path, config.AllowedPaths)
                /\ ~UnderSome(ReqCanonical.path, config.DenyListPaths))

\* /w is denied and /w2 allowed: /w2/f is searched
C3_Witness ==
    /\ req.tool = "search_in_file"
    /\ AnyPlainPrefixOnly(ReqCanonical.path, config.DenyListPaths)
    /\ resp.success

\* the path as written holds a ".." segment
HasDotDot(p) == \E i \in 1..Len(Split(p, Sep)) : Split(p, Sep)[i] = DotDot

\* the canonical form exists and no allowed root is at or above it
CanonicalOutsideAllowed ==
    ReqCanonical.err = "" /\ ~UnderSome(ReqCanonical.path, config.AllowedPaths)

\* C4 as stated: a path with ".." segments whose lexical resolution is under
\* no allowed root is denied by the file tools, without any I/O.
C4_LexicalOutsideDenied ==
    (/\ req.tool \in FileTools
     /\ HasDotDot(req.path)
     /\ ~UnderSome(Abs(req.path, cwd), config.AllowedPaths))
    => PathDenied

\* C4, amended: a path with ".." segments whose canonical form (the lexical
\* resolution with symlinks then resolved) is under no allowed root is denied
\* by the file tools, without any I/O, also when the string as written starts
\* with an allowed root.
C4_CanonicalOutsideDenied ==
    (/\ req.tool \in FileTools
     /\ HasDotDot(req.path)
     /\ CanonicalOutsideAllowed)
    => PathDenied

C4_Witness ==
    /\ req.tool = "show_file"
    /\ HasDotDot(req.path)
    /\ \E i \in 1..Len(config.AllowedPaths) :
           /\ config.AllowedPaths[i] /= <<>>
           /\ HasPrefix(req.path, config.AllowedPaths[i] \o <<Sep>>)
    /\ CanonicalOutsideAllowed
    /\ PathDenied

\* link is a symlink placed under an allowed root whose resolved target is
\* under no allowed root
EscapingLink(link) ==
    /\ link \in DOMAIN Links
    /\ UnderSome(PathOf(link), config.AllowedPaths)
    /\ EvalSymlinks(fs, PathOf(link)).err = ""
    /\ ~UnderSome(PathOf(EvalSymlinks(fs, PathOf(link)).path), config.AllowedPaths)

\* the path as written is the link or continues it
ThroughLink(p, link) == UnderRoot(p, PathOf(link))

C6_DefaultAllowedIsCwd ==
    (envAllowed = <<>> /\ pathsFlag = <<>> /\ pc /= "main")
    => /\ config.AllowedPaths = <<cwd>>
       /\ (req.tool \in FileTools /\ ReqCanonical.err = "")
          => /\ (/\ UnderRoot(ReqCanonical.path, cwd)
                 /\ ~UnderSome(ReqCanonical.path, config.DenyListPaths))
                => resp.error /= FileDeniedMsg
             /\ ~UnderRoot(ReqCanonical.path, cwd) => PathDenied

C6_Witness ==
    /\ envAllowed = <<>>
    /\ pathsFlag = <<>>
    /\ req.tool = "show_file"
    /\ ~IsAbs(req.path)
    /\ UnderRoot(ReqCanonical.path, cwd)
    /\ resp.success

\* root/.git and root/.env
SensitiveUnder(root) ==
    { root \o <<Sep>> \o SensitiveNames[n] : n \in 1..Len(SensitiveNames) }

\* C7 as stated: in the configuration the server runs with, the sensitive
\* entries of every allowed root are in the denied list, and the file tools
\* deny every path under them.
C7_SensitiveDefaultsAlwaysDenied ==
    pc /= "main"
    => \A i \in 1..Len(config.AllowedPaths) :
           \A entry \in SensitiveUnder(config.AllowedPaths[i]) :
               /\ \E j \in 1..Len(config.DenyListPaths) : config.DenyListPaths[j] = entry
               /\ (/\ req.tool \in FileTools
                   /\ ReqCanonical.err = ""
                   /\ UnderRoot(ReqCanonical.path, entry))
                  => PathDenied

\* the entries of list are those of the colon-separated value, in order
EntriesOf(list, value) ==
    /\ Join(list, ":") = value
    /\ \A i \in 1..Len(list) : ~Contains(list[i], ":")

Token == req.command[1]

ShellRequest == req.tool = "execute_shell_command" /\ Len(req.command) > 0

\* the token is a bare name: not absolute and without "/" or "\"
BareToken(t) ==
    /\ ~(Len(t) > 0 /\ t[1] = Sep)
    /\ \A i \in 1..Len(t) : t[i] \notin {Sep, "\\"}

\* C9: a bare command token is admitted exactly when it is one of the names
\* of the whitelist, letter case included, whatever the path configuration.
C9_BareTokenIffWhitelisted ==
    (ShellRequest /\ BareToken(Token))
    => (resp.error /= CommandDeniedMsg <=> Token \in allowedCommands)

C9_Witness ==
    /\ ShellRequest
    /\ Token = <<"Ls">>
    /\ resp.error = CommandDeniedMsg
    /\ resp.exitCode = -1
    /\ trace = <<"isCommandAllowed">>

\* C10: a command token that is a path is admitted exactly when its
\* canonical form is under no denied root and under an allowed root; the
\* whitelist plays no part.
C10_PathTokenGetsPathVerdict ==
    (ShellRequest /\ ~BareToken(Token))
    => (resp.error /= CommandDeniedMsg
            <=> LET c == Canonical(fs, cwd, Token)
                IN  /\ c.err = ""
                    /\ ~UnderSome(c.path, config.DenyListPaths)
                    /\ UnderSome(c.path, config.AllowedPaths))

\* /w/t is launched though "t" is no whitelisted name
C10_Witness ==
    /\ ShellRequest
    /\ IsAbs(Token)
    /\ Base(Token) \notin allowedCommands
    /\ resp.success
    /\ \E i \in 1..Len(trace) : trace[i] = "Start"

\* /e/ls is refused though "ls" is a whitelisted name
C10_WitnessDenied ==
    /\ ShellRequest
    /\ IsAbs(Token)
    /\ Base(Token) \in allowedCommands
    /\ resp.error = CommandDeniedMsg

Launched == FirstCall(trace, "Start", 1) > 0

\* the verdicts the two admission checks give for the request in hand
CommandAdmitted == isCommandAllowed(toolConfig[1], config, fs, cwd, Token)

WorkingDirVerdict == IsPathAllowed(config, fs, cwd, req.workingDir)

WorkingDirRefused ==
    /\ req.workingDir /= Nil
    /\ ~(WorkingDirVerdict.allowed /\ WorkingDirVerdict.err = "")

\* C11: execute_shell_command starts the process only after isCommandAllowed
\* admitted argv[0] and, when a working directory is supplied, after
\* IsPathAllowed allowed it without error; when either check refuses, no
\* process is started and the result has success=false and exit_code=-1.
C11_LaunchOnlyAfterAdmission ==
    ShellRequest
    => /\ Launched
          => /\ FirstCall(trace, "isCommandAllowed", 1) \in 1..(FirstCall(trace, "Start", 1) - 1)
             /\ CommandAdmitted
             /\ req.workingDir /= Nil
                => /\ FirstCall(trace, "IsPathAllowed", 1)
                          \in 1..(FirstCall(trace, "Start", 1) - 1)
                   /\ WorkingDirVerdict.allowed
                   /\ WorkingDirVerdict.err = ""
       /\ (~CommandAdmitted \/ WorkingDirRefused)
          => /\ ~Launched
             /\ resp.success = FALSE
             /\ resp.exitCode = -1

\* an admitted command is started in a supplied, allowed working directory
C11_Witness ==
    /\ ShellRequest
    /\ req.workingDir /= Nil
    /\ Launched
    /\ FirstCall(trace, "IsPathAllowed", 1) > 0

\* an admitted command is refused its working directory and never started
C11_WitnessRefused ==
    /\ ShellRequest
    /\ CommandAdmitted
    /\ WorkingDirRefused
    /\ resp.error = WorkingDirDeniedMsg

\* the calls that touch the filesystem
FsCalls == { "Stat", "ReadFile", "Open", "Read", "MkdirAll", "OpenFile", "WriteString" }

\* position of the first filesystem call in the trace, 0 when there is none
RECURSIVE FirstFsCall(_, _)
FirstFsCall(calls, i) ==
    IF i > Len(calls) THEN 0
    ELSE IF calls[i] \in FsCalls THEN i
    ELSE FirstFsCall(calls, i + 1)

\* the verdict calls made before position k of the trace
VerdictsBefore(calls, k) ==
    Cardinality({ i \in 1..(k - 1) : calls[i] = "IsPathAllowed" })

PathVerdict == IsPathAllowed(config, fs, cwd, req.path)

ParentVerdict == IsPathAllowed(config, fs, cwd, Dir(req.path))

Allows(v) == v.allowed /\ v.err = ""

\* C12: show_file, search_in_file and write_file touch the filesystem only
\* after IsPathAllowed allowed the requested path, and write_file only after
\* it allowed the parent directory as well; a refused request is answered
\* with success=false and the reason, and touches nothing.
C12_FileAccessOnlyAfterVerdict ==
    req.tool \in FileTools
    => LET k == FirstFsCall(trace, 1)
           checks == IF req.tool = "write_file" THEN 2 ELSE 1
       IN  /\ k > 0
              => /\ VerdictsBefore(trace, k) = checks
                 /\ Allows(PathVerdict)
                 /\ req.tool = "write_file" => Allows(ParentVerdict)
           /\ ~Allows(PathVerdict)
              => /\ k = 0
                 /\ resp.success = FALSE
                 /\ resp.error = FileDeniedMsg
           /\ (req.tool = "write_file" /\ Allows(PathVerdict) /\ ~Allows(ParentVerdict))
              => /\ k = 0
                 /\ resp.success = FALSE
                 /\ resp.error = ParentDeniedMsg

\* write_file is refused for its parent directory though the path is allowed
C12_Witness ==
    /\ req.tool = "write_file"
    /\ Allows(PathVerdict)
    /\ ~Allows(ParentVerdict)
    /\ resp.error = ParentDeniedMsg

\* write_file created a file after both verdicts
C12_WitnessWritten ==
    /\ req.tool = "write_file"
    /\ resp.success
    /\ FirstFsCall(trace, 1) = 3
    /\ fs.files /= InitialFiles

\* C13: every Execute that has ended returned a non-nil tool response and a
\* nil Go error, whatever the outcome it reports.
C13_ExecuteReturnsResponseAndNilError ==
    req /= NoRequest
    => /\ ret.kind = "return"
       /\ ret.response
       /\ ret.err = "nil"

\* show_file read the file and was unwound by the slice expression
C13_PanicReached ==
    /\ req.tool = "show_file"
    /\ ret.kind = "panic"
    /\ trace[Len(trace)] = "ReadFile"

NoFsCall == FirstFsCall(trace, 1) = 0

\* C14: when IsPathAllowed reports an error the answer is a denial and the
\* guarded operation is not performed: a file tool and the working-directory
\* check deny with the error text appended to the message, and a command
\* token that is a path is not admitted.
C14_FailClosedOnVerdictError ==
    /\ (req.tool \in FileTools /\ PathVerdict.err /= "")
       => /\ resp.success = FALSE
          /\ resp.error = FileDeniedMsg
          /\ resp.detail = PathVerdict.err
          /\ NoFsCall
    /\ (ShellRequest /\ CommandAdmitted /\ req.workingDir /= Nil
            /\ WorkingDirVerdict.err /= "")
       => /\ resp.success = FALSE
          /\ resp.error = WorkingDirDeniedMsg
          /\ resp.detail = WorkingDirVerdict.err
          /\ ~Launched
    /\ (ShellRequest /\ IsPathToken(Token)
            /\ IsPathAllowed(config, fs, cwd, Token).err /= "")
       => /\ resp.success = FALSE
          /\ resp.error = CommandDeniedMsg
          /\ ~Launched

\* the working directory /w/k is a symlink loop: denied with the error text
C14_Witness ==
    /\ ShellRequest
    /\ CommandAdmitted
    /\ req.workingDir /= Nil
    /\ WorkingDirVerdict.err /= ""
    /\ resp.detail = WorkingDirVerdict.err
    /\ resp.error = WorkingDirDeniedMsg

\* the command token /w/k is a symlink loop: not admitted
C14_WitnessCommand ==
    /\ ShellRequest
    /\ IsPathToken(Token)
    /\ IsPathAllowed(config, fs, cwd, Token).err /= ""
    /\ resp.error = CommandDeniedMsg

\* a file tool asked for /w/k denies with the error text
C14_WitnessFile ==
    /\ req.tool \in FileTools
    /\ PathVerdict.err /= ""
    /\ resp.detail = PathVerdict.err

ServerConstructed == pc \in {"registering", "serving"}

\* C15: a tool whose handler is registered holds the server's configuration,
\* and once the server is constructed no step (a registration, Start, an
\* Execute, a reply) changes the allowed or the denied list or takes the
\* configuration from a tool.
C15_ConfigFixedAfterConstruction ==
    /\ [](\A t \in registered : toolConfig[t])
    /\ [][ServerConstructed
            => /\ config' = config
               /\ \A t \in 1..Len(Tools) : toolConfig[t] => toolConfig'[t]]_vars

\* all four tools are registered with the configuration main created, and
\* a write_file has run under it
C15_Witness ==
    /\ pc = "serving"
    /\ registered = 1..Len(Tools)
    /\ \A t \in registered : toolConfig[t]
    /\ config = createServerConfig(envAllowed, envDenied, pathsFlag, denyFlag, cwd)
    /\ req.tool = "write_file"
    /\ resp.success

\* an absolute path in its cleaned form: no trailing separator, no empty,
\* "." or ".." segment
CanonicalRoot(r) == IsAbs(r) /\ Clean(r) = r

C16_RawRootReached ==
    /\ pc = "serving"
    /\ pathsFlag = <<"/", "w", "/", ":", "/", "e">>
    /\ config.AllowedPaths[1] = <<"/", "w", "/">>

\* C17: an empty command array is answered with "Empty command" and a nil
\* error, before the admission of Command[0] is evaluated and without a
\* process being started.
C17_EmptyCommandRejectedFirst ==
    (req.tool = "execute_shell_command" /\ Len(req.command) = 0)
    => /\ resp.error = "Empty command"
       /\ ret = Returned
       /\ FirstCall(trace, "isCommandAllowed", 1) = 0
       /\ FirstCall(trace, "Start", 1) = 0

\* the empty array was sent, with a working directory that would be refused
C17_Witness ==
    /\ req.tool = "execute_shell_command"
    /\ req.command = <<>>
    /\ req.workingDir = <<"/", "w", "/", "k">>
    /\ resp.error = "Empty command"
    /\ trace = <<>>

\* Execute has returned from the done case of its select
Completed ==
    /\ req.tool = "execute_shell_command"
    /\ ret.kind = "return"
    /\ Len(trace) > 0
    /\ trace[Len(trace)] = "Wait"

\* C18: for a command that ran to completion before the timeout, success is
\* true and exit_code 0 exactly when the process ended without error;
\* otherwise success is false and exit_code is the exit status of the
\* process, or -1 when the failure is no exit error.  In every result of
\* execute_shell_command success=true comes with exit_code=0.
C18_ExitStatusReported ==
    /\ (req.tool = "execute_shell_command" /\ ret.kind = "return" /\ resp.success)
       => resp.exitCode = 0
    /\ Completed
       => /\ resp.success <=> proc = "exit0"
          /\ proc = "exit0" => resp.exitCode = 0
          /\ proc = "exit1" => resp.exitCode = 1
          /\ proc = "signal" => resp.exitCode = -1
          /\ proc = "unknown" => resp.exitCode = -1

\* a process that ended with status 1 is reported with exit_code 1
C18_Witness ==
    /\ Completed
    /\ proc = "exit1"
    /\ resp.success = FALSE
    /\ resp.exitCode = 1

\* a process that ended with status 0 is reported as a success
C18_WitnessSuccess ==
    /\ Completed
    /\ proc = "exit0"
    /\ resp.success

\* Execute has returned from the timeout case of its select
TimedOut ==
    /\ req.tool = "execute_shell_command"
    /\ ret.kind = "return"
    /\ Len(trace) > 0
    /\ trace[Len(trace)] = "Kill"

\* C19: the timeout of a call is args.Timeout if positive and 60 seconds
\* otherwise; a return by timeout carries success=false, exit_code=-1 and
\* "Command timed out"; and a call that launched a process eventually
\* returns, also when the process never ends or never closes its output.
C19_ExecuteEventuallyReturns ==
    /\ [](InFlight => timeout = IF req.timeout > 0 THEN req.timeout ELSE 60)
    /\ [](TimedOut => /\ resp.success = FALSE
                      /\ resp.exitCode = -1
                      /\ resp.error = "Command timed out")
    /\ InFlight ~> ~InFlight

\* Execute waits in io.ReadAll(stdout) on a process that runs and keeps its
\* output open: no step of the server is enabled, the timer does not exist yet
C19_BlockedInReadAll ==
    /\ epc = "stdout"
    /\ proc = "running"
    /\ wOpen
    /\ data = wrote
    /\ ~ENABLED MainFlow
    /\ ~ENABLED WaitReturns

\* C20: however the goroutine that calls cmd.Wait and the reads of the main
\* flow interleave, the stdout and stderr of the result of a completed
\* command hold everything the process wrote before it ended.
C20_OutputComplete ==
    Completed => \A s \in Streams : data[s] = wrote[s]

\* the process wrote to stdout and ended, Wait closed the pipes before
\* io.ReadAll had read the chunk, and the result has an empty stdout
C20_OutputLost ==
    /\ Completed
    /\ proc = "exit0"
    /\ resp.success
    /\ wrote["stdout"] = 1
    /\ data["stdout"] = 0

\* C21: whatever the order of Start, a failure of Serve and Stop, the
\* server's done channel is closed at most once, so no close panics.
C21_DoneClosedAtMostOnce == closes <= 1

\* Serve failed and its goroutine closed the channel; the signal then made
\* Stop close it again
C21_ClosedTwice ==
    /\ pc = "serving"
    /\ serve = "ended"
    /\ stopper = "exiting"
    /\ closes = 2

\* show_file has read the file and reached its slice expression
Slicing ==
    /\ req.tool = "show_file"
    /\ FirstCall(trace, "ReadFile", 1) > 0
    /\ ~req.fault
    /\ ~SelectLines(LinesPerFile, req.startLine, req.numLines).beyond

\* C22: whatever StartLine and NumLines are, when show_file slices the lines
\* 0 <= startIndex <= endIndex <= totalLines holds, Execute does not panic
\* and the number of lines shown is between 0 and the number of lines.
C22_SliceWithinBounds ==
    Slicing
    => LET sel == SelectLines(LinesPerFile, req.startLine, req.numLines)
       IN  /\ 0 <= sel.startIndex
           /\ sel.startIndex <= sel.endIndex
           /\ sel.endIndex <= LinesPerFile
           /\ sel.endIndex - sel.startIndex \in 0..LinesPerFile
           /\ ret.kind = "return"

\* num_lines=-1 from the first line: endIndex is -1 and the slice panics
C22_NegativeSlice ==
    /\ Slicing
    /\ req.numLines = <<-1>>
    /\ SelectLines(LinesPerFile, req.startLine, req.numLines).endIndex = -1
    /\ ret.kind = "panic"

\* Execute would call cmd.Start for the request in hand with its command
\* array replaced by c
WouldLaunch(c) ==
    CallsToStart(toolConfig[1], config, fs, cwd, [req EXCEPT !.command = c]) /= <<>>

\* C23: the admission of execute_shell_command depends on argv[0] and the
\* working directory only: a request is launched exactly when every request
\* with the same argv[0] and working directory and other arguments is, and
\* no path verdict is asked for an argument.
C23_AdmissionIgnoresArguments ==
    ShellRequest
    => /\ \A c \in ShellCommands :
              (Len(c) > 0 /\ c[1] = Token) => (Launched <=> WouldLaunch(c))
       /\ Launched
          => VerdictsBefore(trace, Len(trace) + 1)
                 = IF req.workingDir /= Nil THEN 1 ELSE 0

\* cat is launched on /w/.git/c, a path IsPathAllowed denies
C23_Witness ==
    /\ ShellRequest
    /\ Token = <<"cat">>
    /\ Len(req.command) = 2
    /\ ~IsPathAllowed(config, fs, cwd, req.command[2]).allowed
    /\ Launched
    /\ resp.success

====
